---- MODULE Spec2Model ----
(***************************************************************************)
(* decode_response.py of docs/examples/x-wallet-dev/nautilus-xwallet:      *)
(* one run of the script, statement by statement.  The parsed JSON         *)
(* document is the input; Python's values (arbitrary-precision int, float, *)
(* str, list, dict, None) are modelled by what the interpreter does with   *)
(* them in the statements of the script.                                   *)
(***************************************************************************)
EXTENDS Integers, Sequences, FiniteSets

(***************************************************************************)
(* Python int.  An int is a sign and a magnitude of unbounded size; the    *)
(* magnitude is a sequence of 15-bit digits, most significant first, with  *)
(* no leading zero digit (zero is the empty sequence).                     *)
(***************************************************************************)
Base == 2^15

MinOf(S) == CHOOSE i \in S : \A j \in S : i <= j

\* e, evaluated after v: the carries below are computed in the order the
\* digits are processed
Then(v, e) == IF v = v THEN e ELSE e

Norm(x) ==
    LET nz == {i \in 1..Len(x) : x[i] # 0}
    IN  IF nz = {} THEN <<>> ELSE SubSeq(x, MinOf(nz), Len(x))

\* 0 <= n < 2^31
NatToBig(n) == Norm(<<n \div (Base * Base), (n \div Base) % Base, n % Base>>)

\* Long division of the digits lo..hi of x by d, entering with remainder r;
\* the range is halved so that the evaluation stays shallow.
RECURSIVE DivRange(_, _, _, _, _)
DivRange(x, d, lo, hi, r) ==
    IF lo > hi THEN [q |-> <<>>, r |-> r]
    ELSE IF lo = hi
         THEN [q |-> <<(r * Base + x[lo]) \div d>>, r |-> (r * Base + x[lo]) % d]
         ELSE LET mid == (lo + hi) \div 2
                  L   == DivRange(x, d, lo, mid, r)
                  R   == DivRange(x, d, mid + 1, hi, L.r)
              IN  Then(L.r, [q |-> L.q \o R.q, r |-> R.r])

\* floor(x / d) and x mod d, for 0 < d < 2^16
DivSmall(x, d) ==
    LET res == DivRange(x, d, 1, Len(x), 0) IN [q |-> Norm(res.q), r |-> res.r]

\* The digits lo..hi of x times c, entering with carry at digit hi.
RECURSIVE MulRange(_, _, _, _, _)
MulRange(x, c, lo, hi, carry) ==
    IF lo > hi THEN [p |-> <<>>, carry |-> carry]
    ELSE IF lo = hi
         THEN [p |-> <<(x[lo] * c + carry) % Base>>,
               carry |-> (x[lo] * c + carry) \div Base]
         ELSE LET mid == (lo + hi) \div 2
                  R   == MulRange(x, c, mid + 1, hi, carry)
                  L   == MulRange(x, c, lo, mid, R.carry)
              IN  Then(R.carry, [p |-> L.p \o R.p, carry |-> L.carry])

\* x * c + a, for 0 <= c < 2^16 and 0 <= a < 2^16
MulSmallAdd(x, c, a) ==
    LET res == MulRange(x, c, 1, Len(x), a) IN Norm(NatToBig(res.carry) \o res.p)

\* x * 2^k
ShiftLeft(x, k) ==
    IF x = <<>> THEN <<>>
    ELSE MulSmallAdd(x, 2^(k % 15), 0) \o [i \in 1..(k \div 15) |-> 0]

\* -1, 0, 1 as x < y, x = y, x > y
Cmp(x, y) ==
    IF Len(x) # Len(y) THEN (IF Len(x) < Len(y) THEN -1 ELSE 1)
    ELSE LET df == {i \in 1..Len(x) : x[i] # y[i]}
         IN  IF df = {} THEN 0
             ELSE IF x[MinOf(df)] < y[MinOf(df)] THEN -1 ELSE 1

\* The digits lo..hi of x - y (y aligned at the low end), entering with borrow.
RECURSIVE SubRange(_, _, _, _, _)
SubRange(x, y, lo, hi, borrow) ==
    IF lo > hi THEN [p |-> <<>>, borrow |-> borrow]
    ELSE IF lo = hi
         THEN LET yi == IF lo > Len(x) - Len(y) THEN y[lo - (Len(x) - Len(y))] ELSE 0
                  v  == x[lo] - yi - borrow
              IN  [p |-> <<IF v < 0 THEN v + Base ELSE v>>,
                   borrow |-> IF v < 0 THEN 1 ELSE 0]
         ELSE LET mid == (lo + hi) \div 2
                  R   == SubRange(x, y, mid + 1, hi, borrow)
                  L   == SubRange(x, y, lo, mid, R.borrow)
              IN  Then(R.borrow, [p |-> L.p \o R.p, borrow |-> L.borrow])

\* x - y, for x >= y
Sub(x, y) == Norm(SubRange(x, y, 1, Len(x), 0).p)

\* |x - y|
AbsDiff(x, y) == IF Cmp(x, y) >= 0 THEN Sub(x, y) ELSE Sub(y, x)

RECURSIVE LimbBitLen(_)
LimbBitLen(n) == IF n = 0 THEN 0 ELSE 1 + LimbBitLen(n \div 2)

\* number of bits of x (0 for zero)
BitLen(x) == IF x = <<>> THEN 0 ELSE 15 * (Len(x) - 1) + LimbBitLen(x[1])

\* bit i of x, bit 0 the least significant
Bit(x, i) ==
    IF i < 0 \/ i >= 15 * Len(x) THEN 0
    ELSE (x[Len(x) - (i \div 15)] \div 2^(i % 15)) % 2

\* k successive divisions of x by 10000: the remainders, last one first
RECURSIVE DecRange(_, _)
DecRange(x, k) ==
    IF k = 0 THEN [x |-> x, g |-> <<>>]
    ELSE IF k = 1 THEN [x |-> DivSmall(x, 10000).q, g |-> <<DivSmall(x, 10000).r>>]
    ELSE LET lowPart  == DecRange(x, k \div 2)
             highPart == DecRange(lowPart.x, k - (k \div 2))
         IN  Then(lowPart.x, [x |-> highPart.x, g |-> highPart.g \o lowPart.g])

\* the decimal digits of x, most significant first (0 is the one digit 0);
\* computed four digits at a time (2^15 < 10^5, so 5 * Len(x) digits suffice)
ToDecimal(x) ==
    LET g  == DecRange(x, (5 * Len(x) + 3) \div 4).g
        ds == [i \in 1..(4 * Len(g)) |->
                 (g[((i - 1) \div 4) + 1] \div 10^(3 - ((i - 1) % 4))) % 10]
        nz == {i \in 1..Len(ds) : ds[i] # 0}
    IN  IF nz = {} THEN <<0>> ELSE SubSeq(ds, MinOf(nz), Len(ds))

\* acc * 10^(hi - lo + 1) + the number the digits ds[lo..hi] spell
RECURSIVE FromDecRange(_, _, _, _)
FromDecRange(ds, lo, hi, acc) ==
    IF lo > hi THEN acc
    ELSE IF lo = hi THEN MulSmallAdd(acc, 10, ds[lo])
    ELSE LET left == FromDecRange(ds, lo, (lo + hi) \div 2, acc)
         IN  Then(left, FromDecRange(ds, ((lo + hi) \div 2) + 1, hi, left))

\* the magnitude a decimal literal denotes
FromDecimal(ds) == FromDecRange(ds, 1, Len(ds), <<>>)

\* acc * 2^(hi - lo + 1) + the number the bits bs[lo..hi] spell
RECURSIVE FromBitsRange(_, _, _, _)
FromBitsRange(bs, lo, hi, acc) ==
    IF lo > hi THEN acc
    ELSE IF lo = hi THEN MulSmallAdd(acc, 2, bs[lo])
    ELSE LET left == FromBitsRange(bs, lo, (lo + hi) \div 2, acc)
         IN  Then(left, FromBitsRange(bs, ((lo + hi) \div 2) + 1, hi, left))

\* the magnitude whose bits, most significant first, are bs
BitsToBig(bs) == FromBitsRange(bs, 1, Len(bs), <<>>)

Pow2(k) == ShiftLeft(<<1>>, k)

PyInt(neg, mag) == [t |-> "int", neg |-> neg /\ mag # <<>>, mag |-> mag]

(***************************************************************************)
(* Python float: IEEE 754 binary64.  A finite non-zero float is a sign, an *)
(* exponent exp and FloatMantBits mantissa bits, most significant first,   *)
(* the first of them 1: its value is mant * 2^(exp - FloatMantBits + 1).   *)
(* Zero has an all-zero mantissa.                                          *)
(***************************************************************************)
FloatMantBits == 53
FloatMaxExp == 1024

MistPerSui == 1000000000
\* the divisor of line 21 as a product of factors below 2^16
MistPerSuiFactors == <<125, 15625, 512>>

PyFloat(sign, exp, mant) == [t |-> "float", sign |-> sign, exp |-> exp, mant |-> mant]
FloatZero == PyFloat(0, 0, [i \in 1..FloatMantBits |-> 0])

Ok(v) == [ok |-> TRUE, val |-> v, exc |-> "none"]
Raise(e) == [ok |-> FALSE, val |-> [t |-> "unset"], exc |-> e]

\* floor(x / (fs[i] * ... * fs[Len(fs)])) and whether a remainder was dropped
RECURSIVE DivFactors(_, _, _, _)
DivFactors(x, fs, i, inexact) ==
    IF i > Len(fs) THEN [q |-> x, inexact |-> inexact]
    ELSE DivFactors(DivSmall(x, fs[i]).q, fs, i + 1,
                    inexact \/ DivSmall(x, fs[i]).r # 0)

\* mant + 1 on a mantissa that is not all ones
IncrementBits(mant) ==
    LET z == CHOOSE i \in 1..Len(mant) :
                 mant[i] = 0 /\ \A j \in (i + 1)..Len(mant) : mant[j] = 1
    IN  [i \in 1..Len(mant) |-> IF i < z THEN mant[i] ELSE IF i = z THEN 1 ELSE 0]

\* int / int (true division): the quotient correctly rounded to the nearest
\* float, ties to even; OverflowError when it is too large for a float.
IntTrueDivide(n, fs) ==
    IF n.mag = <<>> THEN Ok(FloatZero)
    ELSE
    LET shift   == 15 * (4 + 2 * Len(fs))
        d       == DivFactors(n.mag \o [i \in 1..(shift \div 15) |-> 0], fs, 1, FALSE)
        nb      == BitLen(d.q)
        e       == nb - 1 - shift
        mant    == [i \in 1..FloatMantBits |-> Bit(d.q, nb - i)]
        half    == Bit(d.q, nb - FloatMantBits - 1)
        sticky  == d.inexact \/ \E j \in 0..(nb - FloatMantBits - 2) : Bit(d.q, j) = 1
        up      == half = 1 /\ (sticky \/ mant[FloatMantBits] = 1)
        allOnes == \A i \in 1..FloatMantBits : mant[i] = 1
        m2      == IF ~up THEN mant
                   ELSE IF allOnes
                        THEN [i \in 1..FloatMantBits |-> IF i = 1 THEN 1 ELSE 0]
                        ELSE IncrementBits(mant)
        e2      == IF up /\ allOnes THEN e + 1 ELSE e
    IN  IF e2 >= FloatMaxExp THEN Raise("OverflowError")
        ELSE Ok(PyFloat(IF n.neg THEN 1 ELSE 0, e2, m2))

(***************************************************************************)
(* The other Python values of a parsed JSON document.  Text is a sequence  *)
(* of code points.                                                         *)
(***************************************************************************)
PyNone == [t |-> "null"]
PyStr(cps) == [t |-> "str", s |-> cps]
PyList(items) == [t |-> "list", items |-> items]
PyDict(d) == [t |-> "dict", d |-> d]
Unset == [t |-> "unset"]

\* obj.get(key): None for a key that is absent
SubscriptOrNone(obj, key) ==
    IF obj.t = "dict"
    THEN IF key \in DOMAIN obj.d THEN Ok(obj.d[key]) ELSE Ok(PyNone)
    ELSE Raise("TypeError")

\* obj[key], key a string
Subscript(obj, key) ==
    IF obj.t = "dict"
    THEN IF key \in DOMAIN obj.d THEN Ok(obj.d[key]) ELSE Raise("KeyError")
    ELSE Raise("TypeError")

\* the exception bytes() raises on one item of its iterable, or "none"
ByteItemError(v) ==
    IF v.t # "int" THEN "TypeError"
    ELSE IF v.neg \/ Len(v.mag) > 1 \/ (Len(v.mag) = 1 /\ v.mag[1] > 255)
         THEN "ValueError"
         ELSE "none"

ByteOf(v) == IF v.mag = <<>> THEN 0 ELSE v.mag[1]

\* bytes(v): a list gives its items as bytes (the first bad item raises), a
\* non-negative int n gives n zero bytes (n below 2^15 in the documents
\* considered), an empty dict no bytes
MakeBytes(v) ==
    CASE v.t = "list" ->
           LET bad == {i \in 1..Len(v.items) : ByteItemError(v.items[i]) # "none"}
           IN  IF bad # {} THEN Raise(ByteItemError(v.items[MinOf(bad)]))
               ELSE Ok([i \in 1..Len(v.items) |-> ByteOf(v.items[i])])
      [] v.t = "int" ->
           IF v.neg THEN Raise("ValueError") ELSE Ok([i \in 1..ByteOf(v) |-> 0])
      [] v.t = "dict" -> IF DOMAIN v.d = {} THEN Ok(<<>>) ELSE Raise("TypeError")
      [] OTHER -> Raise("TypeError")

IsCont(bs, j) == j <= Len(bs) /\ bs[j] >= 128 /\ bs[j] < 192

\* the character starting at bs[i]: its length in bytes (0: none) and code point
Utf8Char(bs, i) ==
    LET b0 == bs[i]
        c(j) == bs[i + j] % 64
    IN  IF b0 < 128 THEN [len |-> 1, cp |-> b0]
        ELSE IF b0 >= 192 /\ b0 < 224 /\ IsCont(bs, i + 1)
        THEN LET cp == (b0 % 32) * 64 + c(1)
             IN  IF cp < 128 THEN [len |-> 0, cp |-> 0] ELSE [len |-> 2, cp |-> cp]
        ELSE IF b0 >= 224 /\ b0 < 240 /\ IsCont(bs, i + 1) /\ IsCont(bs, i + 2)
        THEN LET cp == (b0 % 16) * 4096 + c(1) * 64 + c(2)
             IN  IF cp < 2048 \/ (cp >= 55296 /\ cp <= 57343)
                 THEN [len |-> 0, cp |-> 0] ELSE [len |-> 3, cp |-> cp]
        ELSE IF b0 >= 240 /\ b0 < 248
                /\ IsCont(bs, i + 1) /\ IsCont(bs, i + 2) /\ IsCont(bs, i + 3)
        THEN LET cp == (b0 % 8) * 262144 + c(1) * 4096 + c(2) * 64 + c(3)
             IN  IF cp < 65536 \/ cp > 1114111
                 THEN [len |-> 0, cp |-> 0] ELSE [len |-> 4, cp |-> cp]
        ELSE [len |-> 0, cp |-> 0]

RECURSIVE Utf8DecodeFrom(_, _, _)
Utf8DecodeFrom(bs, i, acc) ==
    IF i > Len(bs) THEN Ok(PyStr(acc))
    ELSE IF Utf8Char(bs, i).len = 0 THEN Raise("UnicodeDecodeError")
    ELSE Utf8DecodeFrom(bs, i + Utf8Char(bs, i).len, Append(acc, Utf8Char(bs, i).cp))

\* bs.decode('utf-8'), errors strict
Utf8Decode(bs) == Utf8DecodeFrom(bs, 1, <<>>)

\* bytes(byte_array).decode('latin-1'): every byte is a character
decode_bytes_latin1(byte_array) ==
    IF MakeBytes(byte_array).ok THEN Ok(PyStr(MakeBytes(byte_array).val))
    ELSE MakeBytes(byte_array)

\* decode_bytes(byte_array)
decode_bytes(byte_array) ==
    IF MakeBytes(byte_array).ok THEN Utf8Decode(MakeBytes(byte_array).val)
    ELSE MakeBytes(byte_array)

\* v // 1_000_000_000, as a float
FloorDivideByMistPerSui(v) ==
    IF v.t = "int"
    THEN IntTrueDivide(
             PyInt(v.neg, MulSmallAdd(MulSmallAdd(MulSmallAdd(
                              DivFactors(v.mag, MistPerSuiFactors, 1, FALSE).q,
                              125, 0), 15625, 0), 512, 0)),
             MistPerSuiFactors)
    ELSE Raise("TypeError")

\* v / 1_000_000_000
DivideByMistPerSui(v) ==
    IF v.t = "int" THEN IntTrueDivide(v, MistPerSuiFactors) ELSE Raise("TypeError")

\* slice indices that take a negative index for 0
AdjustIndexNoWrap(i, n) == IF i < 0 THEN 0 ELSE IF i > n THEN n ELSE i

\* Python's slice indices on a sequence of length n
AdjustIndex(i, n) ==
    IF i < 0 THEN (IF i + n < 0 THEN 0 ELSE i + n) ELSE IF i > n THEN n ELSE i

\* s[:stop] and s[start:] on the items of a str or a list
SliceTo(s, stop) == SubSeq(s, 1, AdjustIndex(stop, Len(s)))
SliceFrom(s, start) == SubSeq(s, AdjustIndex(start, Len(s)) + 1, Len(s))

SliceLen == 32
Ellipsis == <<46, 46, 46>>

\* f"{signature[:32]}...{signature[-32:]}"
AbbreviateSignature(sig) ==
    IF sig.t = "str"
    THEN Ok(SliceTo(sig.s, SliceLen) \o Ellipsis \o SliceFrom(sig.s, -SliceLen))
    ELSE Raise("TypeError")

DigitChars(ds) == [i \in 1..Len(ds) |-> 48 + ds[i]]

\* f"{n:,}": the decimal digits in groups of three from the right
FormatGrouped(n) ==
    LET ds == ToDecimal(n.mag)
        L  == Len(ds)
        T  == L + ((L - 1) \div 3)
        body == [k \in 1..T |->
                   LET p == T - k
                   IN  IF p % 4 = 3 THEN 44 ELSE 48 + ds[L - (p - (p \div 4))]]
    IN  (IF n.neg THEN <<45>> ELSE <<>>) \o body

\* f"{v}" of a str, an int or None
FormatValue(v) ==
    CASE v.t = "str" -> v.s
      [] v.t = "int" -> (IF v.neg THEN <<45>> ELSE <<>>) \o DigitChars(ToDecimal(v.mag))
      [] OTHER -> <<78, 111, 110, 101>>

(***************************************************************************)
(* Standard output: a sequence of lines.  A line is its fixed text (label),*)
(* the formatted value after it (text) and, on the Amount (SUI) line, the  *)
(* float whose repr is printed (repr is one-to-one on floats).             *)
(***************************************************************************)
SepWidth == 60
NoNum == [t |-> "none"]
Line(label, text) == [label |-> label, text |-> text, num |-> NoNum]
NumLine(label, f) == [label |-> label, text |-> <<>>, num |-> f]
SeparatorShort(ch) == Line("", [i \in 1..(SepWidth - 1) |-> ch])
Separator(ch) == Line("", [i \in 1..SepWidth |-> ch])

(***************************************************************************)
(* The input documents.  A document is chosen field by field; each field   *)
(* is described by a short code (a sequence of numbers):                   *)
(*   shape          0 the documented nesting, 1 the document is a list,    *)
(*                  2 no "response", 3 "response" is null, 4 no "data",    *)
(*                  5 "data" is a string                                   *)
(*   byte fields    <<0>> absent, <<1, c1, .., cn>> the bytes of the       *)
(*                  chunks c1..cn, <<2>> a string, <<3>> the number 3,     *)
(*                  <<4>> a list holding 256, <<5>> null,                  *)
(*                  <<6>> a list holding a string                          *)
(*   amount         <<0>> absent, <<1, i>> the integer Amounts[i],         *)
(*                  <<2>> a string, <<3>> null                             *)
(*   timestamp_ms   <<0>> absent, <<1>> 1700000000000                      *)
(*   intent         <<0>> absent, <<1>> "transfer", <<2>> the number 0     *)
(*   signature      <<0>> absent, <<1, n>> a string of n characters,       *)
(*                  <<2>> a number, <<3>> null                             *)
(***************************************************************************)
MaxChunks == 2
MaxSigLen == 66
MaxArgs == 2

\* well-formed characters of 1 to 4 bytes, then ill-formed sequences: a lone
\* continuation byte, a lead byte alone, two overlong forms, a surrogate, a
\* code point above 10FFFF, a byte that is never valid, a truncated character
ByteChunks ==
    << <<88>>, <<195, 169>>, <<226, 130, 172>>, <<240, 159, 152, 128>>,
       <<128>>, <<195>>, <<192, 128>>, <<224, 128, 128>>, <<237, 160, 128>>,
       <<244, 144, 128, 128>>, <<255>>, <<226, 130>> >>

RECURSIVE ChunkBytes(_, _)
ChunkBytes(code, i) ==
    IF i > Len(code) THEN <<>> ELSE ByteChunks[code[i]] \o ChunkBytes(code, i + 1)

ByteList(bs) == PyList([i \in 1..Len(bs) |-> PyInt(FALSE, NatToBig(bs[i]))])

Absent == [t |-> "absent"]

BytesField(code) ==
    CASE code[1] = 0 -> Absent
      [] code[1] = 1 -> ByteList(ChunkBytes(code, 2))
      [] code[1] = 2 -> PyStr(<<88, 49>>)
      [] code[1] = 3 -> PyInt(FALSE, NatToBig(3))
      [] code[1] = 4 -> ByteList(<<88, 256>>)
      [] code[1] = 5 -> PyNone
      [] OTHER       -> PyList(<<PyInt(FALSE, NatToBig(88)), PyStr(<<49>>)>>)

\* 0, 1, 999, 1000, one SUI, one and a half, 1234567891, 2^53 + 1, the
\* largest u64, -5000, 2^1053 (the quotient still fits a float), 2^1054
Amounts ==
    << PyInt(FALSE, <<>>), PyInt(FALSE, NatToBig(1)), PyInt(FALSE, NatToBig(999)),
       PyInt(FALSE, NatToBig(1000)), PyInt(FALSE, NatToBig(MistPerSui)),
       PyInt(FALSE, NatToBig(1500000000)), PyInt(FALSE, NatToBig(1234567891)),
       PyInt(FALSE, MulSmallAdd(Pow2(53), 1, 1)),
       PyInt(FALSE, Sub(Pow2(64), NatToBig(1))),
       PyInt(TRUE, NatToBig(5000)),
       PyInt(FALSE, Pow2(1053)), PyInt(FALSE, Pow2(1054)) >>

AmountField(code) ==
    CASE code[1] = 0 -> Absent
      [] code[1] = 1 -> Amounts[code[2]]
      [] code[1] = 2 -> PyStr(<<53>>)
      [] OTHER       -> PyNone

TimestampField(code) ==
    IF code[1] = 0 THEN Absent
    ELSE PyInt(FALSE, FromDecimal(<<1, 7, 0, 0, 0, 0, 0, 0, 0, 0, 0, 0, 0>>))

IntentField(code) ==
    CASE code[1] = 0 -> Absent
      [] code[1] = 1 -> PyStr(<<116, 114, 97, 110, 115, 102, 101, 114>>)
      [] OTHER       -> PyInt(FALSE, <<>>)

\* a signature of n characters, all different
SignatureField(code) ==
    CASE code[1] = 0 -> Absent
      [] code[1] = 1 -> PyStr([i \in 1..code[2] |-> 32 + i])
      [] code[1] = 2 -> PyInt(FALSE, NatToBig(12345))
      [] OTHER       -> PyNone

\* the dict with the keys whose value is not Absent
MkDict(keys, val) == PyDict([k \in {x \in keys : val[x].t # "absent"} |-> val[k]])

MkDocument(c) ==
    LET data == MkDict({"from_xid", "to_xid", "amount", "coin_type"},
                       [from_xid |-> BytesField(c.fx), to_xid |-> BytesField(c.tx),
                        amount |-> AmountField(c.am), coin_type |-> BytesField(c.ct)])
        dataV == CASE c.shape = 4 -> Absent
                   [] c.shape = 5 -> PyStr(<<100>>)
                   [] OTHER       -> data
        resp == MkDict({"data", "timestamp_ms", "intent"},
                       [data |-> dataV, timestamp_ms |-> TimestampField(c.ts),
                        intent |-> IntentField(c.it)])
        respV == CASE c.shape = 2 -> Absent
                   [] c.shape = 3 -> PyNone
                   [] OTHER       -> resp
    IN  IF c.shape = 1 THEN PyList(<<>>)
        ELSE MkDict({"response", "signature"},
                    [response |-> respV, signature |-> SignatureField(c.sg)])

GoodChoice ==
    [shape |-> 0, fx |-> <<1, 1>>, tx |-> <<1, 1, 1>>, am |-> <<1, 5>>,
     ct |-> <<1, 1, 2>>, ts |-> <<1>>, it |-> <<1>>, sg |-> <<1, 64>>]

ChunkCodes == {<<1>> \o cs : cs \in UNION {[1..n -> 1..Len(ByteChunks)] : n \in 0..MaxChunks}}

\* documents with several faults at once
FaultChoices ==
    {[shape |-> 0, fx |-> fx, tx |-> tx, am |-> am, ct |-> ct, ts |-> ts, it |-> it, sg |-> sg] :
        fx \in {<<0>>, <<1, 1>>, <<1, 5>>}, tx \in {<<0>>, <<1, 1>>, <<1, 5>>},
        am \in {<<0>>, <<1, 5>>, <<2>>, <<1, 12>>}, ct \in {<<0>>, <<1, 1>>, <<1, 5>>},
        ts \in {<<0>>, <<1>>}, it \in {<<0>>, <<1>>},
        sg \in {<<0>>, <<1, 2>>, <<2>>}}

\* the documented shape but for one field
FieldChoices ==
    {[GoodChoice EXCEPT !.shape = k] : k \in 1..5}
    \cup {[GoodChoice EXCEPT !.fx = x] : x \in ChunkCodes \cup {<<k>> : k \in 2..6}}
    \cup {[GoodChoice EXCEPT !.tx = x] : x \in {<<1, k>> : k \in 1..Len(ByteChunks)} \cup {<<k>> : k \in 2..6}}
    \cup {[GoodChoice EXCEPT !.ct = x] : x \in {<<1, k>> : k \in 1..Len(ByteChunks)} \cup {<<k>> : k \in 2..6}}
    \cup {[GoodChoice EXCEPT !.am = x] : x \in {<<1, k>> : k \in 1..Len(Amounts)} \cup {<<3>>}}
    \cup {[GoodChoice EXCEPT !.it = <<2>>]}
    \cup {[GoodChoice EXCEPT !.sg = x] : x \in {<<1, n>> : n \in 0..MaxSigLen} \cup {<<3>>}}

DocChoices == FaultChoices \cup FieldChoices

\* what the named file, or standard input, holds
Inputs ==
    {[openable |-> o, readable |-> r, wellFormed |-> w, choice |-> GoodChoice] :
        o \in BOOLEAN, r \in BOOLEAN, w \in BOOLEAN}
    \cup {[openable |-> TRUE, readable |-> TRUE, wellFormed |-> TRUE, choice |-> c] :
             c \in DocChoices}

(***************************************************************************)
(* One run of the script.                                                  *)
(*   argv      sys.argv: the script's name, then the positional arguments  *)
(*   input     what the named file (or standard input) holds               *)
(*   pc        the line about to run, or "done" / "failed"                 *)
(*   handle    the file object f of line 46: "none", "open", "closed"      *)
(*   opened    the paths opened, in order                                  *)
(*   reads     the sources json.load read, in order                        *)
(*   response  the parsed document                                         *)
(*   locals    the local variables of decode_response                      *)
(*   stdout    the lines written to standard output                        *)
(*   exc       the exception raised, "none" when none                      *)
(*   steps     the lookups, decodings and the division carried out so far  *)
(***************************************************************************)
VARIABLES argv, input, pc, handle, opened, reads, response, locals, stdout, exc, steps

vars == <<argv, input, pc, handle, opened, reads, response, locals, stdout, exc, steps>>

NoLocals ==
    [data |-> Unset, from_xid |-> Unset, to_xid |-> Unset, amount_mist |-> Unset,
     amount_sui |-> Unset, coin_type |-> Unset, timestamp_ms |-> Unset,
     intent |-> Unset, signature |-> Unset]

Init ==
    /\ argv \in {<<"decode_response.py">> \o [i \in 1..n |-> "response.json"] : n \in 0..MaxArgs}
    /\ \E c \in Inputs :
          input = [openable |-> c.openable, readable |-> c.readable,
                   wellFormed |-> c.wellFormed, doc |-> MkDocument(c.choice)]
    /\ pc = "L44"
    /\ handle = "none"
    /\ opened = <<>>
    /\ reads = <<>>
    /\ response = Unset
    /\ locals = NoLocals
    /\ stdout = <<>>
    /\ exc = "none"
    /\ steps = <<>>

\* if len(sys.argv) > 2
TestArgvOffByOne ==
    /\ pc = "L44"
    /\ pc' = IF Len(argv) > 2 THEN "L46" ELSE "L50"
    /\ UNCHANGED <<argv, input, handle, opened, reads, response, locals, stdout, exc, steps>>

\* line 44: if len(sys.argv) > 1
TestArgv ==
    /\ pc = "L44"
    /\ pc' = IF Len(argv) > 1 THEN "L46" ELSE "L50"
    /\ UNCHANGED <<argv, input, handle, opened, reads, response, locals, stdout, exc, steps>>

\* line 46: with open(sys.argv[1], 'r') as f
OpenFile ==
    /\ pc = "L46"
    /\ IF input.openable
       THEN /\ handle' = "open"
            /\ opened' = Append(opened, argv[2])
            /\ pc' = "L47"
            /\ exc' = exc
       ELSE /\ exc' = "FileNotFoundError"
            /\ pc' = "failed"
            /\ UNCHANGED <<handle, opened>>
    /\ UNCHANGED <<argv, input, reads, response, locals, stdout, steps>>

\* json.load(source): read the whole source, then parse it
JsonLoad(source, next) ==
    /\ reads' = Append(reads, source)
    /\ IF ~input.readable
       THEN exc' = "OSError" /\ response' = response
       ELSE IF ~input.wellFormed
            THEN exc' = "JSONDecodeError" /\ response' = response
            ELSE exc' = exc /\ response' = input.doc
    /\ pc' = next

\* line 47: response = json.load(f); the with block is left next, either way
LoadFile ==
    /\ pc = "L47"
    /\ JsonLoad("file", "L46_exit")
    /\ UNCHANGED <<argv, input, handle, opened, locals, stdout, steps>>

\* f.close() after the load, skipped when the load raises
ExitWithLeak ==
    /\ pc = "L46_exit"
    /\ handle' = IF exc # "none" THEN handle ELSE "closed"
    /\ pc' = IF exc # "none" THEN "failed" ELSE "L16"
    /\ UNCHANGED <<argv, input, opened, reads, response, locals, stdout, exc, steps>>

\* leaving the with block of line 46 closes f, with or without an exception
ExitWith ==
    /\ pc = "L46_exit"
    /\ handle' = "closed"
    /\ pc' = IF exc # "none" THEN "failed" ELSE "L16"
    /\ UNCHANGED <<argv, input, opened, reads, response, locals, stdout, exc, steps>>

PromptLine == Line("Paste JSON response (Ctrl+D when done):", <<>>)

\* line 50: print("Paste JSON response (Ctrl+D when done):")
Prompt ==
    /\ pc = "L50"
    /\ stdout' = Append(stdout, PromptLine)
    /\ pc' = "L51"
    /\ UNCHANGED <<argv, input, handle, opened, reads, response, locals, exc, steps>>

\* line 51: response = json.load(sys.stdin)
LoadStdin ==
    /\ pc = "L51"
    /\ JsonLoad("stdin", IF input.readable /\ input.wellFormed THEN "L16" ELSE "failed")
    /\ UNCHANGED <<argv, input, handle, opened, locals, stdout, steps>>

\* A statement of decode_response that evaluates r and binds it to a local:
\* r.res is the outcome, r.did the steps carried out.
Bind(line, next, name, r) ==
    /\ pc = line
    /\ steps' = steps \o r.did
    /\ IF r.res.ok
       THEN /\ locals' = [locals EXCEPT ![name] = r.res.val]
            /\ pc' = next
            /\ exc' = exc
       ELSE /\ exc' = r.res.exc
            /\ pc' = "failed"
            /\ locals' = locals
    /\ UNCHANGED <<argv, input, handle, opened, reads, response, stdout>>

\* obj[k1][k2]
Subscript2(obj, k1, k2) ==
    IF Subscript(obj, k1).ok
    THEN [res |-> Subscript(Subscript(obj, k1).val, k2),
          did |-> <<<<"lookup", k1>>, <<"lookup", k2>>>>]
    ELSE [res |-> Subscript(obj, k1), did |-> <<<<"lookup", k1>>>>]

\* decode_bytes(data[key])
LookupDecode(key) ==
    IF Subscript(locals.data, key).ok
    THEN [res |-> decode_bytes(Subscript(locals.data, key).val),
          did |-> <<<<"lookup", key>>, <<"decode", key>>>>]
    ELSE [res |-> Subscript(locals.data, key), did |-> <<<<"lookup", key>>>>]

\* line 16: data = response_json['response']['data']
Line16 == Bind("L16", "L18", "data", Subscript2(response, "response", "data"))

\* from_xid = decode_bytes(data['to_xid'])
Line18WrongKey == Bind("L18", "L19", "from_xid", LookupDecode("to_xid"))

\* line 18: from_xid = decode_bytes(data['from_xid'])
Line18 == Bind("L18", "L19", "from_xid", LookupDecode("from_xid"))

\* line 19: to_xid = decode_bytes(data['to_xid'])
Line19 == Bind("L19", "L20", "to_xid", LookupDecode("to_xid"))

\* line 20: amount_mist = data['amount']
Line20 ==
    Bind("L20", "L21", "amount_mist",
         [res |-> Subscript(locals.data, "amount"), did |-> <<<<"lookup", "amount">>>>])

\* line 21: amount_sui = amount_mist / 1_000_000_000
Line21 ==
    Bind("L21", "L22", "amount_sui",
         [res |-> DivideByMistPerSui(locals.amount_mist), did |-> <<<<"divide", "amount">>>>])

\* line 22: coin_type = decode_bytes(data['coin_type'])
Line22 == Bind("L22", "L24", "coin_type", LookupDecode("coin_type"))

\* line 24: timestamp_ms = response_json['response']['timestamp_ms']
Line24 == Bind("L24", "L25", "timestamp_ms", Subscript2(response, "response", "timestamp_ms"))

\* line 25: intent = response_json['response']['intent']
Line25 == Bind("L25", "L26", "intent", Subscript2(response, "response", "intent"))

\* line 26: signature = response_json['signature']
Line26 ==
    Bind("L26", "L28", "signature",
         [res |-> Subscript(response, "signature"), did |-> <<<<"lookup", "signature">>>>])

\* print(...): the lines are appended to standard output
PrintStmt(line, next, lines) ==
    /\ pc = line
    /\ stdout' = stdout \o lines
    /\ pc' = next
    /\ UNCHANGED <<argv, input, handle, opened, reads, response, locals, exc, steps>>

Title == Line("XWallet Transfer Payload (Decoded)", <<>>)
Closing == Line("Ready to submit to Sui blockchain!", <<>>)
Blank == Line("", <<>>)

Line28 == PrintStmt("L28", "L29", <<Separator(61)>>)
Line29 == PrintStmt("L29", "L30", <<Title>>)
Line30 == PrintStmt("L30", "L31", <<Separator(61)>>)
Line31 == PrintStmt("L31", "L32", <<Line("From XID:       ", FormatValue(locals.from_xid))>>)
Line32 == PrintStmt("L32", "L33", <<Line("To XID:         ", FormatValue(locals.to_xid))>>)
Line33 == PrintStmt("L33", "L34", <<Line("Amount (MIST):  ", FormatGrouped(locals.amount_mist))>>)
Line34 == PrintStmt("L34", "L35", <<NumLine("Amount (SUI):   ", locals.amount_sui)>>)
Line35 == PrintStmt("L35", "L36", <<Line("Coin Type:      ", FormatValue(locals.coin_type))>>)
Line36 == PrintStmt("L36", "L37", <<Separator(45)>>)
Line37 == PrintStmt("L37", "L38", <<Line("Intent:         ", FormatValue(locals.intent))>>)
Line38 == PrintStmt("L38", "L39", <<Line("Timestamp (ms): ", FormatValue(locals.timestamp_ms))>>)

\* line 39: the slices are taken while the argument of print is built
Line39 ==
    /\ pc = "L39"
    /\ IF AbbreviateSignature(locals.signature).ok
       THEN /\ stdout' = Append(stdout, Line("Signature:      ",
                                             AbbreviateSignature(locals.signature).val))
            /\ pc' = "L40"
            /\ exc' = exc
       ELSE /\ exc' = AbbreviateSignature(locals.signature).exc
            /\ pc' = "failed"
            /\ stdout' = stdout
    /\ UNCHANGED <<argv, input, handle, opened, reads, response, locals, steps>>

Line40 == PrintStmt("L40", "L41", <<Separator(61)>>)

\* line 41: print("\nReady to submit to Sui blockchain!\n")
Line41 == PrintStmt("L41", "done", <<Blank, Closing, Blank>>)

Next ==
    \/ TestArgv \/ OpenFile \/ LoadFile \/ ExitWith \/ Prompt \/ LoadStdin
    \/ Line16 \/ Line18 \/ Line19 \/ Line20 \/ Line21 \/ Line22
    \/ Line24 \/ Line25 \/ Line26
    \/ Line28 \/ Line29 \/ Line30 \/ Line31 \/ Line32 \/ Line33 \/ Line34
    \/ Line35 \/ Line36 \/ Line37 \/ Line38 \/ Line39 \/ Line40 \/ Line41

Spec == Init /\ [][Next]_vars

(***************************************************************************)
(* Vocabulary of the properties.                                           *)
(***************************************************************************)
\* the error taxonomy: the kind of condition an exception is.  The float
\* overflow of line 21 is none of the four kinds and is named ArithmeticError.
ErrorKind(e) ==
    CASE e \in {"FileNotFoundError", "OSError"} -> "IOError"
      [] e = "JSONDecodeError" -> "ParseError"
      [] e \in {"KeyError", "TypeError", "ValueError"} -> "SchemaError"
      [] e = "UnicodeDecodeError" -> "EncodingError"
      [] e = "OverflowError" -> "ArithmeticError"
      [] OTHER -> "none"

Terminal == pc \in {"done", "failed"}
Parsed == response.t # "unset"
RenderPcs == {"L28", "L29", "L30", "L31", "L32", "L33", "L34", "L35", "L36",
              "L37", "L38", "L39", "L40", "L41"}

\* the report: standard output without the paste prompt
Report ==
    IF stdout # <<>> /\ stdout[1].label = PromptLine.label THEN Tail(stdout) ELSE stdout

LastStep == steps[Len(steps)]

\* the document's fields, read off the document itself
Has(obj, key) == obj.t = "dict" /\ key \in DOMAIN obj.d
DocResponse == IF Has(input.doc, "response") THEN input.doc.d["response"] ELSE Absent
DocData == IF Has(DocResponse, "data") THEN DocResponse.d["data"] ELSE Absent
DocField(f) == IF Has(DocData, f) THEN DocData.d[f] ELSE Absent
DocSignature == IF Has(input.doc, "signature") THEN input.doc.d["signature"] ELSE Absent

ByteFields == {"from_xid", "to_xid", "coin_type"}

IsByteList(v) ==
    /\ v.t = "list"
    /\ \A i \in 1..Len(v.items) :
          /\ v.items[i].t = "int"
          /\ ~v.items[i].neg
          /\ Cmp(v.items[i].mag, NatToBig(255)) <= 0

ListBytes(v) ==
    [i \in 1..Len(v.items) |-> IF v.items[i].mag = <<>> THEN 0 ELSE v.items[i].mag[1]]

Within(bs, j, lo, hi) == j <= Len(bs) /\ bs[j] >= lo /\ bs[j] <= hi

\* well-formed UTF-8 byte sequences (The Unicode Standard, table 3-7)
RECURSIVE WellFormedFrom(_, _)
WellFormedFrom(bs, i) ==
    IF i > Len(bs) THEN TRUE
    ELSE LET b == bs[i]
             t(j) == Within(bs, i + j, 128, 191)
         IN  CASE b <= 127 -> WellFormedFrom(bs, i + 1)
               [] b >= 194 /\ b <= 223 -> t(1) /\ WellFormedFrom(bs, i + 2)
               [] b = 224 -> Within(bs, i + 1, 160, 191) /\ t(2) /\ WellFormedFrom(bs, i + 3)
               [] (b >= 225 /\ b <= 236) \/ b = 238 \/ b = 239 ->
                     t(1) /\ t(2) /\ WellFormedFrom(bs, i + 3)
               [] b = 237 -> Within(bs, i + 1, 128, 159) /\ t(2) /\ WellFormedFrom(bs, i + 3)
               [] b = 240 ->
                     Within(bs, i + 1, 144, 191) /\ t(2) /\ t(3) /\ WellFormedFrom(bs, i + 4)
               [] b >= 241 /\ b <= 243 -> t(1) /\ t(2) /\ t(3) /\ WellFormedFrom(bs, i + 4)
               [] b = 244 ->
                     Within(bs, i + 1, 128, 143) /\ t(2) /\ t(3) /\ WellFormedFrom(bs, i + 4)
               [] OTHER -> FALSE

ValidUtf8(bs) == WellFormedFrom(bs, 1)

\* the UTF-8 encoding of one code point, and of a text
EncodeChar(cp) ==
    IF cp < 128 THEN <<cp>>
    ELSE IF cp < 2048 THEN <<192 + (cp \div 64), 128 + (cp % 64)>>
    ELSE IF cp < 65536
         THEN <<224 + (cp \div 4096), 128 + ((cp \div 64) % 64), 128 + (cp % 64)>>
         ELSE <<240 + (cp \div 262144), 128 + ((cp \div 4096) % 64),
                128 + ((cp \div 64) % 64), 128 + (cp % 64)>>

RECURSIVE Utf8Encode(_)
Utf8Encode(cps) == IF cps = <<>> THEN <<>> ELSE EncodeChar(Head(cps)) \o Utf8Encode(Tail(cps))

\* a byte field that holds bytes which are not valid UTF-8
IllFormed(f) == IsByteList(DocField(f)) /\ ~ValidUtf8(ListBytes(DocField(f)))

\* some required key cannot be found in the document
KeyAbsent ==
    \/ ~Has(input.doc, "response") \/ ~Has(input.doc, "signature")
    \/ \E k \in {"data", "timestamp_ms", "intent"} : ~Has(DocResponse, k)
    \/ \E k \in {"from_xid", "to_xid", "amount", "coin_type"} : ~Has(DocData, k)

NoReportLine == pc \notin RenderPcs \cup {"done"} /\ Report = <<>>

(***************************************************************************)
(* C1.  The report is all-or-nothing: a run that ends in a failure has     *)
(* written no line of the report, and a run that ends has written either   *)
(* the complete report or no report line at all.                           *)
(***************************************************************************)
C1_AllOrNothing ==
    /\ pc = "failed" => Report = <<>>
    /\ Terminal => (Report = <<>> \/ (pc = "done" /\ Len(Report) = 16))

(***************************************************************************)
(* C2.  As claimed: a parsed document lacking a required key makes the run *)
(* fail with a SchemaError-kind condition and no other, whatever the other *)
(* fields hold, and nothing of the report is written.                      *)
(***************************************************************************)
C2_MissingKeyAlwaysSchemaError ==
    (Parsed /\ KeyAbsent) =>
        /\ NoReportLine
        /\ pc = "failed" => ErrorKind(exc) = "SchemaError"

(***************************************************************************)
(* C2, amended.  A parsed document lacking a required key never gets as    *)
(* far as the report and writes none of it; the failure is of the          *)
(* SchemaError kind unless a decoding or the division that comes earlier   *)
(* in the extraction order failed first: then the failure is that step's   *)
(* (EncodingError from a decoding, the float overflow from the division).  *)
(***************************************************************************)
C2_MissingKeyFails ==
    (Parsed /\ KeyAbsent) =>
        /\ NoReportLine
        /\ pc = "failed" =>
              \/ ErrorKind(exc) = "SchemaError"
              \/ ErrorKind(exc) = "EncodingError" /\ LastStep[1] = "decode"
              \/ ErrorKind(exc) = "ArithmeticError" /\ LastStep[1] = "divide"

C2_Witness ==
    /\ pc = "failed" /\ exc = "KeyError"
    /\ ~Has(DocData, "coin_type")
    /\ LastStep = <<"lookup", "coin_type">>

(***************************************************************************)
(* C3.  Every document of the documented shape (all required keys, the     *)
(* three byte fields valid UTF-8, amount an integer, signature a string)   *)
(* never ends in a failure.                                                *)
(***************************************************************************)
Conforms ==
    /\ ~KeyAbsent
    /\ \A f \in ByteFields : IsByteList(DocField(f)) /\ ValidUtf8(ListBytes(DocField(f)))
    /\ DocField("amount").t = "int"
    /\ DocSignature.t = "str"

C3_ConformingInputSucceeds == (Parsed /\ Conforms) => pc # "failed"

(***************************************************************************)
(* C4.  As claimed: with no positional argument the prompt is written and  *)
(* standard input is read, no file opened; with one, the named file is     *)
(* read, never standard input, and no prompt is written; every run reads   *)
(* exactly one source exactly once, before any field is extracted or any   *)
(* report line written.                                                    *)
(***************************************************************************)
SourceByArguments ==
    /\ Len(argv) = 1 =>
          /\ opened = <<>>
          /\ \A i \in 1..Len(reads) : reads[i] = "stdin"
          /\ reads # <<>> => (stdout # <<>> /\ stdout[1] = PromptLine)
    /\ Len(argv) > 1 =>
          /\ \A i \in 1..Len(reads) : reads[i] = "file"
          /\ \A i \in 1..Len(opened) : opened[i] = argv[2]
          /\ reads # <<>> => opened # <<>>
          /\ \A i \in 1..Len(stdout) : stdout[i].label # PromptLine.label
    /\ Len(reads) <= 1
    /\ (steps # <<>> \/ Report # <<>>) => Len(reads) = 1

C4_ExactlyOneRead == SourceByArguments /\ (Terminal => Len(reads) = 1)

(***************************************************************************)
(* C4, amended.  The same, but a run reads exactly one source exactly once *)
(* only if it is not stopped by the failure to open the named file: such a *)
(* run ends having read nothing.  No run reads more than once.             *)
(***************************************************************************)
C4_SourceSelection ==
    /\ SourceByArguments
    /\ Terminal =>
          \/ Len(reads) = 1
          \/ /\ reads = <<>> /\ opened = <<>> /\ Len(argv) > 1
             /\ pc = "failed" /\ ErrorKind(exc) = "IOError"

C4_Witness ==
    /\ pc = "done" /\ Len(argv) = 2
    /\ reads = <<"file">> /\ opened = <<argv[2]>>

(***************************************************************************)
(* C5.  As claimed: a successful run has written, in this order and with   *)
(* nothing between: sixty "=", the title, sixty "=", From XID, To XID,     *)
(* Amount (MIST), Amount (SUI), Coin Type, sixty "-", Intent, Timestamp    *)
(* (ms), sixty "=", a blank line, the closing line, a blank line.          *)
(***************************************************************************)
Sixty(ch) == [i \in 1..60 |-> ch]

\* what the order is about: a line's fixed text, and all of a line without
Shape(l) == <<l.label, IF l.label = "" THEN l.text ELSE <<>>>>
Shapes(ls) == [i \in 1..Len(ls) |-> Shape(ls[i])]

OrderHead ==
    << <<"", Sixty(61)>>, <<"XWallet Transfer Payload (Decoded)", <<>>>>, <<"", Sixty(61)>>,
       <<"From XID:       ", <<>>>>, <<"To XID:         ", <<>>>>,
       <<"Amount (MIST):  ", <<>>>>, <<"Amount (SUI):   ", <<>>>>,
       <<"Coin Type:      ", <<>>>>, <<"", Sixty(45)>>,
       <<"Intent:         ", <<>>>>, <<"Timestamp (ms): ", <<>>>> >>

OrderTail ==
    << <<"", Sixty(61)>>, <<"", <<>>>>, <<"Ready to submit to Sui blockchain!", <<>>>>,
       <<"", <<>>>> >>

C5_OrderAsClaimed == pc = "done" => Shapes(Report) = OrderHead \o OrderTail

(***************************************************************************)
(* C5, amended.  The same order, with one more line: the Signature line    *)
(* comes between Timestamp (ms) and the last line of sixty "=".  The lines *)
(* are written in that order: what is written so far is always a prefix.   *)
(***************************************************************************)
ActualOrder == OrderHead \o << <<"Signature:      ", <<>>>> >> \o OrderTail

C5_ReportOrder ==
    /\ Len(Report) <= Len(ActualOrder)
    /\ Shapes(Report) = SubSeq(ActualOrder, 1, Len(Report))
    /\ pc = "done" => Len(Report) = Len(ActualOrder)

C5_Witness == pc = "done" /\ Report[12].label = "Signature:      "

(***************************************************************************)
(* C6.  For a signature string of any length n, rendering it never fails,  *)
(* and the value shown is its first min(32, n) characters, "...", and its  *)
(* last min(32, n) characters; below 64 characters the two parts overlap   *)
(* (every character is shown, some twice), and a signature of at most 32   *)
(* characters, such as "AB", is shown whole on both sides.                 *)
(***************************************************************************)
MinOfTwo(a, b) == IF a < b THEN a ELSE b

C6_SignatureAbbreviation ==
    DocSignature.t = "str" =>
        LET sig == DocSignature.s
            n   == Len(sig)
            k   == MinOfTwo(32, n)
        IN  /\ locals.signature.t # "unset" => pc # "failed"
            /\ Len(Report) >= 12 =>
                  /\ Report[12].text = SubSeq(sig, 1, k) \o <<46, 46, 46>>
                                         \o SubSeq(sig, n - k + 1, n)
                  /\ (n > 0 /\ n < 64) => Len(Report[12].text) - 3 > n
                  /\ n <= 32 => Report[12].text = sig \o <<46, 46, 46>> \o sig

C6_Witness ==
    /\ pc = "done" /\ DocSignature.t = "str" /\ Len(DocSignature.s) = 2
    /\ Len(Report[12].text) = 7

(***************************************************************************)
(* C7.  As claimed: a byte field that is not valid UTF-8 makes the run     *)
(* fail with an EncodingError-kind condition.                              *)
(***************************************************************************)
C7_InvalidUtf8AlwaysEncodingError ==
    (Parsed /\ \E f \in ByteFields : IllFormed(f)) =>
        /\ NoReportLine
        /\ pc = "failed" => ErrorKind(exc) = "EncodingError"

(***************************************************************************)
(* C7, amended.  A byte field that is not valid UTF-8 keeps the run from   *)
(* the report, and decoding it raises an EncodingError-kind condition:     *)
(* that is how the run fails unless an earlier step of the extraction      *)
(* order has failed already (from_xid, the first field, always fails so).  *)
(* No EncodingError arises in any other way; a field that is valid UTF-8   *)
(* is decoded to the text whose UTF-8 encoding is that byte sequence.      *)
(***************************************************************************)
C7_Utf8Decoding ==
    /\ (Parsed /\ \E f \in ByteFields : IllFormed(f)) => NoReportLine
    /\ (pc = "failed" /\ steps # <<>> /\ LastStep[1] = "decode" /\ IllFormed(LastStep[2]))
          => ErrorKind(exc) = "EncodingError"
    /\ (pc = "failed" /\ Parsed /\ IllFormed("from_xid")) => ErrorKind(exc) = "EncodingError"
    /\ ErrorKind(exc) = "EncodingError"
          => (steps # <<>> /\ LastStep[1] = "decode" /\ IllFormed(LastStep[2]))
    /\ \A f \in ByteFields :
          (locals[f].t # "unset" /\ IsByteList(DocField(f)))
             => /\ ValidUtf8(ListBytes(DocField(f)))
                /\ locals[f].t = "str"
                /\ Utf8Encode(locals[f].s) = ListBytes(DocField(f))

C7_Witness ==
    /\ pc = "failed" /\ exc = "UnicodeDecodeError"
    /\ LastStep = <<"decode", "coin_type">>
    /\ IllFormed("coin_type")
    /\ locals.to_xid.t = "str" /\ Utf8Encode(locals.to_xid.s) = <<88, 88>>

(***************************************************************************)
(* C8.  As claimed: for a non-negative amount the value on the Amount      *)
(* (SUI) line times 1,000,000,000 is the amount (a true division, nothing  *)
(* rounded away), and the Amount (MIST) line shows the amount unchanged.   *)
(***************************************************************************)
TimesBillion(x) == MulSmallAdd(MulSmallAdd(x, 31250, 0), 32000, 0)

\* 2 * |f| * 10^9 and 2 * a scaled by the same power of two, and half a unit
\* in the last place of f, times 10^9, on that scale
Scaled(f, a) ==
    LET sc == f.exp - 52
        up == IF sc > 0 THEN sc ELSE 0
        dn == IF sc < 0 THEN -sc ELSE 0
    IN  [float |-> ShiftLeft(TimesBillion(BitsToBig(f.mant)), up + 1),
         int   |-> ShiftLeft(a, dn + 1),
         half  |-> ShiftLeft(TimesBillion(<<1>>), up)]

ExactQuotient(f, a) == Scaled(f, a).float = Scaled(f, a).int

NearestQuotient(f, a) ==
    Cmp(AbsDiff(Scaled(f, a).float, Scaled(f, a).int), Scaled(f, a).half) <= 0

\* the number a grouped decimal text spells, and where its commas are
Ungrouped(text) ==
    FromDecimal([i \in 1..Len(SelectSeq(text, LAMBDA c : c # 44)) |->
                    SelectSeq(text, LAMBDA c : c # 44)[i] - 48])
CommasEveryThree(text) ==
    \A i \in 1..Len(text) : (text[i] = 44) <=> ((Len(text) - i) % 4 = 3)

AmountRendered ==
    /\ Len(Report) >= 7
    /\ DocField("amount").t = "int" /\ ~DocField("amount").neg

MistShown ==
    /\ Report[6].label = "Amount (MIST):  "
    /\ CommasEveryThree(Report[6].text)
    /\ Ungrouped(Report[6].text) = DocField("amount").mag

C8_ExactDivision ==
    AmountRendered =>
        /\ Report[7].label = "Amount (SUI):   "
        /\ Report[7].num.sign = 0
        /\ ExactQuotient(Report[7].num, DocField("amount").mag)
        /\ MistShown

(***************************************************************************)
(* C8, amended.  The value on the Amount (SUI) line is the float nearest   *)
(* to amount / 1,000,000,000: a true division, never cut to an integer,    *)
(* exact where the quotient is a float (1,000,000,000 gives 1.0 and        *)
(* 1,500,000,000 gives 1.5) and otherwise off by at most half a unit in    *)
(* the last place.  The Amount (MIST) line shows the amount unchanged.     *)
(***************************************************************************)
FloatOne == PyFloat(0, 0, [i \in 1..53 |-> IF i = 1 THEN 1 ELSE 0])
FloatOneAndHalf == PyFloat(0, 0, [i \in 1..53 |-> IF i <= 2 THEN 1 ELSE 0])

C8_NearestFloat ==
    AmountRendered =>
        LET a == DocField("amount").mag
            f == Report[7].num
        IN  /\ Report[7].label = "Amount (SUI):   "
            /\ f.t = "float" /\ f.sign = 0
            /\ IF a = <<>> THEN \A i \in 1..53 : f.mant[i] = 0
               ELSE /\ Len(f.mant) = 53 /\ f.mant[1] = 1
                    /\ NearestQuotient(f, a)
            /\ a = NatToBig(1000000000) => f = FloatOne
            /\ a = NatToBig(1500000000) => f = FloatOneAndHalf
            /\ MistShown

C8_Witness ==
    /\ pc = "done" /\ AmountRendered
    /\ DocField("amount").mag = NatToBig(1500000000)
    /\ Report[7].num = FloatOneAndHalf

(***************************************************************************)
(* C9.  The file handle is open only while the document is read: it is     *)
(* closed when the load succeeds and when reading or parsing fails, it is  *)
(* closed before any field is extracted or any report line written, and    *)
(* no run ends with it open.                                               *)
(***************************************************************************)
C9_HandleReleased ==
    /\ handle = "open" => pc \in {"L47", "L46_exit"}
    /\ Terminal => handle # "open"
    /\ (steps # <<>> \/ Report # <<>>) => handle # "open"
    /\ (opened # <<>> /\ pc \notin {"L47", "L46_exit"}) => handle = "closed"
    /\ handle = "open" => Len(reads) <= 1

C9_Witness ==
    /\ pc = "failed" /\ exc = "JSONDecodeError"
    /\ handle = "closed" /\ opened # <<>>

(***************************************************************************)
(* C10.  The steps are taken in one fixed order, and a document with       *)
(* several faults fails at the first faulty step: the failure is of that   *)
(* fault's kind, no later step is taken, and the report is rendered only   *)
(* after every step has been taken.                                        *)
(***************************************************************************)
StepOrder ==
    << <<"lookup", "response">>, <<"lookup", "data">>,
       <<"lookup", "from_xid">>, <<"decode", "from_xid">>,
       <<"lookup", "to_xid">>, <<"decode", "to_xid">>,
       <<"lookup", "amount">>, <<"divide", "amount">>,
       <<"lookup", "coin_type">>, <<"decode", "coin_type">>,
       <<"lookup", "timestamp_ms">>, <<"lookup", "intent">>,
       <<"lookup", "signature">> >>

\* the smallest amount whose quotient no longer rounds below 2^1024:
\* (2^1024 - 2^970) * 10^9
OverflowFrom == TimesBillion(Sub(Pow2(1024), Pow2(970)))

\* the kind of the fault that bytes() and the decoding find in a field
DecodeFault(v) ==
    CASE v.t = "list" ->
           IF ~IsByteList(v) THEN "SchemaError"
           ELSE IF ValidUtf8(ListBytes(v)) THEN "none" ELSE "EncodingError"
      [] v.t = "int" -> IF v.neg THEN "SchemaError" ELSE "none"
      [] OTHER -> "SchemaError"

\* the kind of the fault a step meets in the document, "none" without one
FaultAt(k) ==
    LET st == StepOrder[k]
    IN  CASE st[1] = "lookup" /\ st[2] \in {"response", "signature"} ->
               IF Has(input.doc, st[2]) THEN "none" ELSE "SchemaError"
          [] st[1] = "lookup" /\ st[2] \in {"data", "timestamp_ms", "intent"} ->
               IF Has(DocResponse, st[2]) THEN "none" ELSE "SchemaError"
          [] st[1] = "lookup" -> IF Has(DocData, st[2]) THEN "none" ELSE "SchemaError"
          [] st[1] = "decode" ->
               IF Has(DocData, st[2]) THEN DecodeFault(DocField(st[2])) ELSE "SchemaError"
          [] OTHER ->
               IF DocField("amount").t # "int" THEN "SchemaError"
               ELSE IF Cmp(DocField("amount").mag, OverflowFrom) >= 0
                    THEN "ArithmeticError" ELSE "none"

Faulty == {k \in 1..Len(StepOrder) : FaultAt(k) # "none"}

\* the steps taken, the later lookups of "response" (lines 24 and 25) left out
StepsTaken ==
    SelectSeq([i \in 1..Len(steps) |-> IF i > 1 /\ steps[i] = <<"lookup", "response">>
                                       THEN <<"again", "response">> ELSE steps[i]],
              LAMBDA st : st[1] # "again")

C10_FirstFaultWins ==
    Parsed =>
        /\ Len(StepsTaken) <= Len(StepOrder)
        /\ StepsTaken = SubSeq(StepOrder, 1, Len(StepsTaken))
        /\ Faulty # {} =>
              /\ pc \notin RenderPcs \cup {"done"}
              /\ Len(StepsTaken) <= MinOf(Faulty)
              /\ pc = "failed" =>
                    /\ Len(StepsTaken) = MinOf(Faulty)
                    /\ ErrorKind(exc) = FaultAt(MinOf(Faulty))
        /\ (pc = "failed" /\ locals.signature.t = "unset") => Faulty # {}
        /\ pc \in RenderPcs \cup {"done"} => StepsTaken = StepOrder

C10_Witness ==
    /\ pc = "failed" /\ exc = "UnicodeDecodeError"
    /\ IllFormed("from_xid") /\ ~Has(DocData, "coin_type")
    /\ StepsTaken = SubSeq(StepOrder, 1, 4)

====
